---------------------------- MODULE Spec2Model ----------------------------
(***************************************************************************)
(* Seasonal population-dynamics simulator of Src/ecosystem.py              *)
(* (class AgroEcosystem) and its driver run_simulation of Src/main.py.     *)
(*                                                                         *)
(* Numbers.  The program computes in binary floating point.  Here every    *)
(* quantity is a fixed-point integer holding the value times SCALE, and a  *)
(* product is rounded down to a multiple of 1/SCALE (operator Mul).  All   *)
(* literals of the program (0.8, 0.005, 2.0, 80.0, ...) are multiples of   *)
(* 1/SCALE and are represented exactly.  Integers of the program (the      *)
(* year counter, stop years) stay unscaled.                                *)
(***************************************************************************)
EXTENDS Integers, Sequences, FiniteSets, TLC

SCALE == 10 * 10 * 10

Mul(a, b) == (a * b) \div SCALE

Min(a, b) == IF a <= b THEN a ELSE b

Max(a, b) == IF a >= b THEN a ELSE b

Abs(a) == IF a < 0 THEN 0 - a ELSE a

----------------------------------------------------------------------------
(* Class-level tables of AgroEcosystem.                                    *)

INITIAL_STATES ==
    [crop |-> 0, weed |-> 30 * SCALE, pest |-> 5 * SCALE,
     bird |-> 0, bat |-> 0, soil_nutrient |-> 50 * SCALE,
     soil_health |-> 50 * SCALE, herbicide_residue |-> 0,
     pesticide_residue |-> 0]

PARAMS ==
    [r_crop |-> 800, r_weed |-> 600, r_pest |-> 500,
     r_bird |-> 100, r_bat |-> 80,
     K_crop |-> 300, K_weed |-> 100, K_pest |-> 80,
     K_bird |-> 20, K_bat |-> 15,
     pest_on_crop |-> 0 - 500, bird_on_pest |-> 0 - 1500,
     bat_on_pest |-> 0 - 1200, crop_weed_comp |-> 0 - 2000,
     herbicide_decay |-> 300, pesticide_decay |-> 250,
     organic_fertilizer_effect |-> 200, chemical_fertilizer_effect |-> 300,
     herbicide_effect |-> 700, pesticide_effect |-> 600,
     predator_pesticide_mortality |-> 300]

SEASON_FACTORS == [spring |-> 800, summer |-> 1200, autumn |-> 900, winter |-> 300]

SEASONS == <<"spring", "summer", "autumn", "winter">>

StateKeys == DOMAIN INITIAL_STATES

----------------------------------------------------------------------------
(* Scenario configurations: a dict, modelled as a function whose domain is *)
(* the set of keys present.  A stop year that is None behaves as an absent *)
(* key (both give None from dict.get), so None is modelled by absence.     *)

Has(scen, k) == k \in DOMAIN scen

Get(scen, k, default) == IF k \in DOMAIN scen THEN scen[k] ELSE default

----------------------------------------------------------------------------
(* Policy operations.  An operation that can raise KeyError returns        *)
(* [st, err]: the state as left when the exception propagated.             *)

\* Variant of apply_fertilizer: soil_health is not clamped.
apply_fertilizer_unclamped(st, scen) ==
    IF Get(scen, "use_organic_fertilizer", FALSE)
    THEN [st EXCEPT !.soil_nutrient = @ + 15 * SCALE,
                    !.soil_health = @ + 2 * SCALE]
    ELSE [st EXCEPT !.soil_nutrient = @ + 30 * SCALE,
                    !.soil_health = @ - 1 * SCALE]

apply_fertilizer(st, scen) ==
    IF Get(scen, "use_organic_fertilizer", FALSE)
    THEN [st EXCEPT !.soil_nutrient = @ + 15 * SCALE,
                    !.soil_health = Min(100 * SCALE, @ + 2 * SCALE)]
    ELSE [st EXCEPT !.soil_nutrient = @ + 30 * SCALE,
                    !.soil_health = Max(0, @ - 1 * SCALE)]

handle_spring_operations(st, scen) ==
    LET planted == [st EXCEPT !.crop = 80 * SCALE]
    IN  IF ~Has(scen, "use_fertilizer")
        THEN [st |-> planted, err |-> TRUE]
        ELSE IF scen["use_fertilizer"]
             THEN [st |-> apply_fertilizer(planted, scen), err |-> FALSE]
             ELSE [st |-> planted, err |-> FALSE]

ChemicalThreshold(chemical_type) ==
    IF chemical_type = "pesticide" THEN 8 * SCALE ELSE 15 * SCALE

ChemicalTarget(chemical_type) ==
    IF chemical_type = "pesticide" THEN "pest" ELSE "weed"

StopYearKey(chemical_type) ==
    IF chemical_type = "pesticide" THEN "pesticide_stop_year" ELSE "herbicide_stop_year"

UseKey(chemical_type) ==
    IF chemical_type = "pesticide" THEN "use_pesticide" ELSE "use_herbicide"

\* Variant of should_apply_chemical: the stop year itself still applies.
should_apply_chemical_inclusive(st, scen, yr, chemical_type) ==
    /\ scen[UseKey(chemical_type)]
    /\ st[ChemicalTarget(chemical_type)] > ChemicalThreshold(chemical_type)
    /\ \/ ~Has(scen, StopYearKey(chemical_type))
       \/ yr <= scen[StopYearKey(chemical_type)]

\* Precondition: the key use_<chemical> is present (the caller raises otherwise).
should_apply_chemical(st, scen, yr, chemical_type) ==
    /\ scen[UseKey(chemical_type)]
    /\ st[ChemicalTarget(chemical_type)] > ChemicalThreshold(chemical_type)
    /\ \/ ~Has(scen, StopYearKey(chemical_type))
       \/ yr < scen[StopYearKey(chemical_type)]

\* Variant of apply_chemical: pesticide leaves the predators alone.
apply_chemical_no_predator_mortality(st, chemical_type) ==
    IF chemical_type = "pesticide"
    THEN [st EXCEPT !.pesticide_residue = 50 * SCALE,
                    !.pest = Mul(@, SCALE - PARAMS.pesticide_effect)]
    ELSE [st EXCEPT !.herbicide_residue = 40 * SCALE,
                    !.weed = Mul(@, SCALE - PARAMS.herbicide_effect)]

apply_chemical(st, chemical_type) ==
    IF chemical_type = "pesticide"
    THEN [st EXCEPT !.pesticide_residue = 50 * SCALE,
                    !.pest = Mul(@, SCALE - PARAMS.pesticide_effect),
                    !.bird = Mul(@, SCALE - PARAMS.predator_pesticide_mortality),
                    !.bat = Mul(@, SCALE - PARAMS.predator_pesticide_mortality)]
    ELSE [st EXCEPT !.herbicide_residue = 40 * SCALE,
                    !.weed = Mul(@, SCALE - PARAMS.herbicide_effect)]

\* Variant of MechanicalEfficiency: the ramp runs one year longer.
MechanicalEfficiency_nine_years(yr) == Min(500, 250 + 30 * Min(9, yr))

MechanicalEfficiency(yr) == Min(500, 250 + 30 * Min(8, yr))

\* Variant of apply_organic_weed_control: no crop-density stage.
apply_organic_weed_control_no_density(st, scen, yr) ==
    LET weed == st.weed
        w1 == IF weed > 20 * SCALE
              THEN Mul(weed, SCALE - MechanicalEfficiency(yr))
              ELSE weed
        w2 == IF Get(scen, "use_cover_crop", FALSE) THEN Mul(w1, 800) ELSE w1
    IN  [st EXCEPT !.weed = Max(0, w2)]

apply_organic_weed_control(st, scen, yr) ==
    LET weed == st.weed
        w1 == IF weed > 20 * SCALE
              THEN Mul(weed, SCALE - MechanicalEfficiency(yr))
              ELSE weed
        w2 == IF Get(scen, "use_cover_crop", FALSE) THEN Mul(w1, 800) ELSE w1
        crop_density_effect == Min(300, Mul(st.crop, 1))
        w3 == Mul(w2, SCALE - crop_density_effect)
    IN  [st EXCEPT !.weed = Max(0, w3)]

\* Variant of handle_summer_operations: organic weed control is the
\* alternative to the use_herbicide flag, not to the herbicide application.
handle_summer_operations_flag_gated(st, scen, yr) ==
    IF ~Has(scen, "use_pesticide")
    THEN [st |-> st, err |-> TRUE]
    ELSE LET s1 == IF should_apply_chemical(st, scen, yr, "pesticide")
                   THEN apply_chemical(st, "pesticide")
                   ELSE st
         IN  IF ~Has(scen, "use_herbicide")
             THEN [st |-> s1, err |-> TRUE]
             ELSE IF scen["use_herbicide"]
                  THEN [st |-> IF should_apply_chemical(s1, scen, yr, "herbicide")
                               THEN apply_chemical(s1, "herbicide")
                               ELSE s1,
                        err |-> FALSE]
                  ELSE [st |-> apply_organic_weed_control(s1, scen, yr),
                        err |-> FALSE]

handle_summer_operations(st, scen, yr) ==
    IF ~Has(scen, "use_pesticide")
    THEN [st |-> st, err |-> TRUE]
    ELSE LET s1 == IF should_apply_chemical(st, scen, yr, "pesticide")
                   THEN apply_chemical(st, "pesticide")
                   ELSE st
         IN  IF ~Has(scen, "use_herbicide")
             THEN [st |-> s1, err |-> TRUE]
             ELSE IF should_apply_chemical(s1, scen, yr, "herbicide")
                  THEN [st |-> apply_chemical(s1, "herbicide"), err |-> FALSE]
                  ELSE [st |-> apply_organic_weed_control(s1, scen, yr),
                        err |-> FALSE]

seasonal_operations(st, scen, yr, season) ==
    IF season = "spring" THEN handle_spring_operations(st, scen)
    ELSE IF season = "summer" THEN handle_summer_operations(st, scen, yr)
    ELSE [st |-> st, err |-> FALSE]

----------------------------------------------------------------------------
(* Growth model.                                                           *)

\* Precondition: the key use_fertilizer is present.
\* base, pest_effect, weed_effect and net of calculate_crop_growth.
CropBase(C) == Mul(Mul(PARAMS.r_crop, C), SCALE - (C \div PARAMS.K_crop))

CropPestEffect(P) == Min(600, Mul(Mul(Abs(PARAMS.pest_on_crop), P), 20))

CropWeedEffect(W) == Min(500, Mul(Mul(Abs(PARAMS.crop_weed_comp), W), 30))

\* Variant of CropNet: no floor.
CropNet_unfloored(C, W, P) ==
    Mul(CropBase(C), SCALE - CropPestEffect(P) - CropWeedEffect(W))

\* Variant of CropNet: floored at 0.
CropNet_floor_zero(C, W, P) ==
    Max(0, Mul(CropBase(C), SCALE - CropPestEffect(P) - CropWeedEffect(W)))

CropNet(C, W, P) ==
    Max(50, Mul(CropBase(C), SCALE - CropPestEffect(P) - CropWeedEffect(W)))

calculate_crop_growth(st, scen, C, W, P) ==
    LET net == CropNet(C, W, P)
        soil_factor == 500 + Mul(st.soil_health \div 100, 500)
        effect == IF Get(scen, "use_organic_fertilizer", FALSE)
                  THEN PARAMS.organic_fertilizer_effect
                  ELSE PARAMS.chemical_fertilizer_effect
        fertilizer_bonus == IF scen["use_fertilizer"]
                            THEN Mul(Mul(effect, st.soil_nutrient), 10)
                            ELSE 0
    IN  Mul(net, soil_factor) + fertilizer_bonus

calculate_weed_growth(st, W, C) ==
    LET base == Mul(Mul(PARAMS.r_weed, W), SCALE - (W \div PARAMS.K_weed))
        crop_competition == Min(500, 50 + Mul(C, 1))
        herbicide_effect == Mul(0 - 50, st.herbicide_residue)
    IN  Mul(base, SCALE - crop_competition) + herbicide_effect

calculate_pest_growth(st, yr, P, B, T) ==
    LET base == Mul(Mul(PARAMS.r_pest, P), SCALE - (P \div PARAMS.K_pest))
        bird_efficiency == Min(600, 300 + 20 * yr)
        bat_efficiency == Min(500, 250 + 15 * yr)
        predation == Mul(Mul(bird_efficiency, B), 50)
                     + Mul(Mul(bat_efficiency, T), 40)
        pesticide_effect == Mul(0 - 10, st.pesticide_residue)
    IN  Mul(base, SCALE - predation) + pesticide_effect

\* Returns the rate and the state after the in-place weed depletion.
calculate_bird_growth(st, B, P) ==
    LET food_effect == Min(200, P \div 50)
        growth == Mul(Mul(PARAMS.r_bird, B), SCALE - (B \div PARAMS.K_bird))
    IN  [rate |-> Mul(growth, SCALE + Mul(500, food_effect)),
         st |-> [st EXCEPT !.weed = Mul(@, SCALE - Min(100, Mul(B, 5)))]]

calculate_bat_growth(T, P) ==
    LET food_effect == Min(200, P \div 50)
    IN  Mul(Mul(Mul(PARAMS.r_bat, T), SCALE - (T \div PARAMS.K_bat)),
            SCALE + Mul(400, food_effect))

\* Variant of calculate_growth_rates: the weed rate is computed from the weed
\* level the birds have already depleted.
calculate_growth_rates_weed_after_birds(st, scen, yr, season) ==
    LET C == st.crop
        P == st.pest
        B == st.bird
        T == st.bat
        birds == IF B > 0 THEN calculate_bird_growth(st, B, P)
                 ELSE [rate |-> 0, st |-> st]
        f == SEASON_FACTORS[season]
    IN  [rates |-> [crop |-> Mul(calculate_crop_growth(st, scen, C, st.weed, P), f),
                    weed |-> Mul(calculate_weed_growth(st, birds.st.weed, C), f),
                    pest |-> Mul(calculate_pest_growth(st, yr, P, B, T), f),
                    bird |-> Mul(birds.rate, f),
                    bat |-> Mul(IF T > 0 THEN calculate_bat_growth(T, P) ELSE 0, f)],
         st |-> birds.st]

\* Returns the season-scaled rates and the state after the bird side effect.
calculate_growth_rates(st, scen, yr, season) ==
    LET C == st.crop
        W == st.weed
        P == st.pest
        B == st.bird
        T == st.bat
        birds == IF B > 0 THEN calculate_bird_growth(st, B, P)
                 ELSE [rate |-> 0, st |-> st]
        f == SEASON_FACTORS[season]
    IN  [rates |-> [crop |-> Mul(calculate_crop_growth(st, scen, C, W, P), f),
                    weed |-> Mul(calculate_weed_growth(st, W, C), f),
                    pest |-> Mul(calculate_pest_growth(st, yr, P, B, T), f),
                    bird |-> Mul(birds.rate, f),
                    bat |-> Mul(IF T > 0 THEN calculate_bat_growth(T, P) ELSE 0, f)],
         st |-> birds.st]

\* Variant of update_predator_population: current * K for current / K.
update_predator_population_times_K(st, predator) ==
    IF st[predator] = 0
    THEN [st EXCEPT ![predator] = IF predator = "bird" THEN 2 * SCALE
                                  ELSE (3 * SCALE) \div 2]
    ELSE LET current == st[predator]
             r == IF predator = "bird" THEN PARAMS.r_bird ELSE PARAMS.r_bat
             K == IF predator = "bird" THEN PARAMS.K_bird ELSE PARAMS.K_bat
             pest_effect == Min(300, st.pest \div 100)
             growth == Mul(Mul(Mul(r, current), SCALE - (current * K)),
                           SCALE + pest_effect)
         IN  [st EXCEPT ![predator] = current + Mul(growth, 500)]

\* Variant of update_predator_population: the two seed values swapped.
update_predator_population_swapped_seed(st, predator) ==
    IF st[predator] = 0
    THEN [st EXCEPT ![predator] = IF predator = "bird" THEN (3 * SCALE) \div 2
                                  ELSE 2 * SCALE]
    ELSE LET current == st[predator]
             r == IF predator = "bird" THEN PARAMS.r_bird ELSE PARAMS.r_bat
             K == IF predator = "bird" THEN PARAMS.K_bird ELSE PARAMS.K_bat
             pest_effect == Min(300, st.pest \div 100)
             growth == Mul(Mul(Mul(r, current), SCALE - (current \div K)),
                           SCALE + pest_effect)
         IN  [st EXCEPT ![predator] = current + Mul(growth, 500)]

update_predator_population(st, predator) ==
    IF st[predator] = 0
    THEN [st EXCEPT ![predator] = IF predator = "bird" THEN 2 * SCALE
                                  ELSE (3 * SCALE) \div 2]
    ELSE LET current == st[predator]
             r == IF predator = "bird" THEN PARAMS.r_bird ELSE PARAMS.r_bat
             K == IF predator = "bird" THEN PARAMS.K_bird ELSE PARAMS.K_bat
             pest_effect == Min(300, st.pest \div 100)
             growth == Mul(Mul(Mul(r, current), SCALE - (current \div K)),
                           SCALE + pest_effect)
         IN  [st EXCEPT ![predator] = current + Mul(growth, 500)]

handle_predator_recovery(st, scen) ==
    IF ~Has(scen, "introduce_birds")
    THEN [st |-> st, err |-> TRUE]
    ELSE LET s1 == IF scen["introduce_birds"]
                   THEN update_predator_population(st, "bird")
                   ELSE st
         IN  IF ~Has(scen, "introduce_bats")
             THEN [st |-> s1, err |-> TRUE]
             ELSE IF scen["introduce_bats"]
                  THEN [st |-> update_predator_population(s1, "bat"),
                        err |-> FALSE]
                  ELSE [st |-> s1, err |-> FALSE]

\* The loop of update_populations: every population plus its rate, clamped.
ApplyRates(st, rates) ==
    [st EXCEPT !.crop = Max(0, @ + rates.crop),
               !.weed = Max(0, @ + rates.weed),
               !.pest = Max(0, @ + rates.pest),
               !.bird = Max(0, @ + rates.bird),
               !.bat = Max(0, @ + rates.bat)]

\* Variant of update_populations: predator recovery before the growth rates.
update_populations_recovery_first(st, scen, yr, season) ==
    IF ~Has(scen, "use_fertilizer")
    THEN [st |-> st, err |-> TRUE]
    ELSE LET r == handle_predator_recovery(st, scen)
             g == calculate_growth_rates(r.st, scen, yr, season)
         IN  IF r.err THEN r
             ELSE [st |-> ApplyRates(g.st, g.rates), err |-> FALSE]

update_populations(st, scen, yr, season) ==
    IF ~Has(scen, "use_fertilizer")
    THEN [st |-> st, err |-> TRUE]
    ELSE LET g == calculate_growth_rates(st, scen, yr, season)
         IN  handle_predator_recovery(ApplyRates(g.st, g.rates), scen)

----------------------------------------------------------------------------
(* Decay model and history.                                                *)

update_chemicals(st) ==
    [st EXCEPT !.pesticide_residue = Mul(@, SCALE - PARAMS.pesticide_decay),
               !.herbicide_residue = Mul(@, SCALE - PARAMS.herbicide_decay),
               !.soil_nutrient = Mul(@, 900)]

HistoryKeys == StateKeys \cup {"year", "season"}

EmptyHistory == [k \in HistoryKeys |-> << >>]

\* Variant of record_state: the season label is not recorded.
record_state_no_season(h, st, yr, season) ==
    [k \in HistoryKeys |->
        IF k = "year" THEN Append(h[k], yr)
        ELSE IF k = "season" THEN h[k]
        ELSE Append(h[k], st[k])]

record_state(h, st, yr, season) ==
    [k \in HistoryKeys |->
        IF k = "year" THEN Append(h[k], yr)
        ELSE IF k = "season" THEN Append(h[k], season)
        ELSE Append(h[k], st[k])]

----------------------------------------------------------------------------
(* Scenario configurations supplied by the caller.                         *)

BoolKeys == {"use_fertilizer", "use_organic_fertilizer", "use_herbicide",
             "use_pesticide", "use_cover_crop", "introduce_birds",
             "introduce_bats"}

RequiredKeys == {"use_fertilizer", "use_herbicide", "use_pesticide",
                 "introduce_birds", "introduce_bats"}

OptionalKeys == {"use_organic_fertilizer", "use_cover_crop"}

None == 0 - 1

\* A configuration with every boolean key; hs, ps: the stop years, or None.
MakeScenario(b, hs, ps) ==
    [k \in BoolKeys \cup (IF hs = None THEN {} ELSE {"herbicide_stop_year"})
                    \cup (IF ps = None THEN {} ELSE {"pesticide_stop_year"}) |->
        IF k = "herbicide_stop_year" THEN hs
        ELSE IF k = "pesticide_stop_year" THEN ps
        ELSE b[k]]

Flags(he, pe, fe, bats, birds, organic, cover) ==
    [use_herbicide |-> he, use_pesticide |-> pe, use_fertilizer |-> fe,
     introduce_bats |-> bats, introduce_birds |-> birds,
     use_organic_fertilizer |-> organic, use_cover_crop |-> cover]

\* The six scenarios of create_scenarios.
MainScenarios ==
    {MakeScenario(Flags(TRUE, TRUE, TRUE, FALSE, FALSE, FALSE, FALSE), None, None),
     MakeScenario(Flags(TRUE, TRUE, TRUE, FALSE, FALSE, FALSE, FALSE), 3, 2),
     MakeScenario(Flags(TRUE, TRUE, TRUE, TRUE, FALSE, FALSE, TRUE), 3, 2),
     MakeScenario(Flags(TRUE, TRUE, TRUE, FALSE, TRUE, FALSE, TRUE), 3, 2),
     MakeScenario(Flags(TRUE, TRUE, TRUE, TRUE, TRUE, TRUE, TRUE), 4, 2),
     MakeScenario(Flags(FALSE, FALSE, FALSE, TRUE, TRUE, TRUE, TRUE), None, None)}

AllFalse ==
    MakeScenario(Flags(FALSE, FALSE, FALSE, FALSE, FALSE, FALSE, FALSE), None, None)

Drop(scen, k) == [x \in DOMAIN scen \ {k} |-> scen[x]]

\* Configurations that lack one boolean key.
MissingKeyScenarios == {Drop(s, k) : s \in MainScenarios, k \in BoolKeys}

MaxYears == 3

MaxStopYear == 2

StopOptions == {None} \cup 0..MaxStopYear

Scenarios ==
    {MakeScenario(b, hs, ps) :
        b \in [BoolKeys -> BOOLEAN], hs \in StopOptions, ps \in StopOptions}
    \cup MainScenarios \cup MissingKeyScenarios

----------------------------------------------------------------------------
(* The state machine: simulations 1 and 2, each an AgroEcosystem object    *)
(* driven by its own run_simulation loop.                                  *)

Sims == {1, 2}

VARIABLES
    scenario,   \* scenario[i]: self.scenario
    years,      \* years[i]: the number of years the caller asked for
    calls,      \* calls[i]: simulate_year calls the caller has made
    year,       \* year[i]: self.year
    states,     \* states[i]: self.states
    history,    \* history[i]: self.history, one sequence per key
    season,     \* season[i]: index in SEASONS of the loop of simulate_year
    pc          \* pc[i]: position inside simulate_year

vars == <<scenario, years, calls, year, states, history, season, pc>>

\* __init__ for every simulation; cfg[i] and n[i] are the caller's arguments.
InitWith(cfg, n) ==
    /\ scenario = cfg
    /\ years = n
    /\ calls = [i \in Sims |-> 0]
    /\ year = [i \in Sims |-> 0]
    /\ states = [i \in Sims |-> INITIAL_STATES]
    /\ history = [i \in Sims |-> EmptyHistory]
    /\ season = [i \in Sims |-> 1]
    /\ pc = [i \in Sims |-> "idle"]

\* One run of run_simulation over MaxYears years; simulation 2 is created
\* and never stepped.
Init ==
    \E s \in Scenarios :
        InitWith([i \in Sims |-> IF i = 1 THEN s ELSE AllFalse],
                 [i \in Sims |-> IF i = 1 THEN MaxYears ELSE 0])

\* run_simulation: the next call of simulate_year.
SimulateYear(i) ==
    /\ pc[i] = "idle"
    /\ calls[i] < years[i]
    /\ calls' = [calls EXCEPT ![i] = @ + 1]
    /\ season' = [season EXCEPT ![i] = 1]
    /\ pc' = [pc EXCEPT ![i] = "operations"]
    /\ UNCHANGED <<scenario, years, year, states, history>>

SeasonalOperations(i) ==
    /\ pc[i] = "operations"
    /\ LET r == seasonal_operations(states[i], scenario[i], year[i],
                                    SEASONS[season[i]])
       IN  /\ states' = [states EXCEPT ![i] = r.st]
           /\ pc' = [pc EXCEPT ![i] = IF r.err THEN "error" ELSE "populations"]
    /\ UNCHANGED <<scenario, years, calls, year, history, season>>

UpdatePopulations(i) ==
    /\ pc[i] = "populations"
    /\ LET r == update_populations(states[i], scenario[i], year[i],
                                   SEASONS[season[i]])
       IN  /\ states' = [states EXCEPT ![i] = r.st]
           /\ pc' = [pc EXCEPT ![i] = IF r.err THEN "error" ELSE "chemicals"]
    /\ UNCHANGED <<scenario, years, calls, year, history, season>>

\* Variant of UpdateChemicals: self.states is one dict shared by every
\* simulation (INITIAL_STATES assigned without .copy()).
UpdateChemicalsShared(i) ==
    /\ pc[i] = "chemicals"
    /\ states' = [j \in Sims |-> update_chemicals(states[j])]
    /\ pc' = [pc EXCEPT ![i] = "record"]
    /\ UNCHANGED <<scenario, years, calls, year, history, season>>

UpdateChemicals(i) ==
    /\ pc[i] = "chemicals"
    /\ states' = [states EXCEPT ![i] = update_chemicals(@)]
    /\ pc' = [pc EXCEPT ![i] = "record"]
    /\ UNCHANGED <<scenario, years, calls, year, history, season>>

RecordState(i) ==
    /\ pc[i] = "record"
    /\ history' = [history EXCEPT
                     ![i] = record_state(@, states[i], year[i], SEASONS[season[i]])]
    /\ IF season[i] < Len(SEASONS)
       THEN /\ season' = [season EXCEPT ![i] = @ + 1]
            /\ pc' = [pc EXCEPT ![i] = "operations"]
       ELSE /\ season' = season
            /\ pc' = [pc EXCEPT ![i] = "increment"]
    /\ UNCHANGED <<scenario, years, calls, year, states>>

\* self.year += 1, and simulate_year returns.
IncrementYear(i) ==
    /\ pc[i] = "increment"
    /\ year' = [year EXCEPT ![i] = @ + 1]
    /\ pc' = [pc EXCEPT ![i] = "idle"]
    /\ UNCHANGED <<scenario, years, calls, states, history, season>>

Next ==
    \E i \in Sims :
        \/ SimulateYear(i)
        \/ SeasonalOperations(i)
        \/ UpdatePopulations(i)
        \/ UpdateChemicals(i)
        \/ RecordState(i)
        \/ IncrementYear(i)

Spec == Init /\ [][Next]_vars

----------------------------------------------------------------------------
(* Long runs: one simulation stepped LongYears years, every combination of *)
(* the flags without stop years, and the scenarios of create_scenarios.    *)

Years == 30

LongYears == 52

LongScenarios ==
    {MakeScenario(b, None, None) : b \in [BoolKeys -> BOOLEAN]} \cup MainScenarios

InitLong ==
    \E s \in LongScenarios :
        InitWith([i \in Sims |-> IF i = 1 THEN s ELSE AllFalse],
                 [i \in Sims |-> IF i = 1 THEN LongYears ELSE 0])

SpecLong == InitLong /\ [][Next]_vars

(* Two simulations stepped side by side, their steps interleaved.          *)

PairYears == 2

PairScenarios ==
    MainScenarios \cup {AllFalse}

InitPair ==
    \E s1 \in PairScenarios, s2 \in PairScenarios, n1 \in 0..PairYears :
        InitWith([i \in Sims |-> IF i = 1 THEN s1 ELSE s2],
                 [i \in Sims |-> IF i = 1 THEN n1 ELSE PairYears])

SpecPair == InitPair /\ [][Next]_vars

----------------------------------------------------------------------------
(* Properties.                                                             *)

Last(seq) == seq[Len(seq)]

\* The flag k is present in the configuration of simulation i and true.
Flag(i, k) == Has(scenario[i], k) /\ scenario[i][k]

\* The value of field k in the latest snapshot of simulation i: the state
\* at the start of the season that is being simulated.
Pre(i, k) == Last(history[i][k])

PopKeys == {"crop", "weed", "pest", "bird", "bat"}

PcSteps ==
    {<<"idle", "operations">>, <<"operations", "populations">>,
     <<"populations", "chemicals">>, <<"chemicals", "record">>,
     <<"record", "operations">>, <<"record", "increment">>,
     <<"increment", "idle">>, <<"operations", "error">>,
     <<"populations", "error">>}

C1_Step(i) ==
    /\ pc'[i] # pc[i] => <<pc[i], pc'[i]>> \in PcSteps
    /\ (pc[i] = "record" /\ pc'[i] = "operations") => season'[i] = season[i] + 1
    /\ (pc[i] = "record" /\ pc'[i] = "increment") => season[i] = 4
    /\ (pc[i] = "operations" /\ pc'[i] # pc[i]) =>
          /\ states'[i].bird <= states[i].bird
          /\ states'[i].bat <= states[i].bat
    /\ (pc[i] = "populations" /\ pc'[i] = "chemicals") =>
          /\ (Flag(i, "introduce_birds") /\ states[i].bird = 0)
                => states'[i].bird = 2 * SCALE
          /\ (Flag(i, "introduce_bats") /\ states[i].bat = 0)
                => states'[i].bat = (3 * SCALE) \div 2
          /\ states'[i].pesticide_residue = states[i].pesticide_residue
          /\ states'[i].soil_nutrient = states[i].soil_nutrient
    /\ (pc[i] = "chemicals" /\ pc'[i] = "record") =>
          \A k \in PopKeys : states'[i][k] = states[i][k]
    /\ (pc[i] = "record" /\ pc'[i] # pc[i]) =>
          /\ states'[i] = states[i]
          /\ \A k \in StateKeys : Last(history'[i][k]) = states[i][k]
          /\ Last(history'[i].season) = SEASONS[season[i]]

\* C1 (as amended): in every season the steps run in the order farming
\* operations of the season, growth (rates from the state the operations
\* left, clamped at 0) followed within the same update by predator
\* introduction/recovery, chemical and soil decay, snapshot.  The farming
\* operations never introduce or grow a predator; a predator that is absent
\* when the growth rates are computed is seeded after them, at exactly its
\* seed value, so its first growth happens in the following season.
C1_GrowthThenRecovery == [][\A i \in Sims : C1_Step(i)]_vars

\* C1 (as stated): predator introduction has taken effect when the growth
\* rates of the season are about to be computed.
C1_RecoveryBeforeGrowth ==
    \A i \in Sims :
        (pc[i] = "populations" /\ Flag(i, "introduce_birds")) => states[i].bird > 0

C1_Witness ==
    \E i \in Sims :
        /\ pc[i] = "chemicals" /\ calls[i] = 1 /\ season[i] = 1
        /\ Flag(i, "introduce_birds")
        /\ states[i].bird = 2 * SCALE
        /\ states[i].crop > 80 * SCALE

C2_Inv(i) ==
    /\ pc[i] = "idle" =>
          /\ year[i] = calls[i]
          /\ \A k \in HistoryKeys : Len(history[i][k]) = 4 * calls[i]
    /\ \A n \in 1..Len(history[i].year) :
          /\ history[i].year[n] = (n - 1) \div 4
          /\ n <= Len(history[i].season)
          /\ history[i].season[n] = SEASONS[((n - 1) % 4) + 1]

C2_YearStep(i) ==
    year'[i] # year[i] =>
        /\ year'[i] = year[i] + 1
        /\ \A k \in HistoryKeys : Len(history[i][k]) = 4 * (year[i] + 1)
        /\ Last(history[i].season) = "winter"

\* C2: after N completed simulate_year calls each of the 11 history series
\* has 4*N entries and the year counter is N; the counter changes only once
\* the fourth season of the year is recorded, so snapshot n carries the year
\* (n-1) div 4 and the season labels cycle spring, summer, autumn, winter.
C2_HistoryLength ==
    /\ [](\A i \in Sims : C2_Inv(i))
    /\ [][\A i \in Sims : C2_YearStep(i)]_vars

C2_Witness ==
    \E i \in Sims :
        /\ pc[i] = "idle" /\ calls[i] = MaxYears /\ year[i] >= 2
        /\ Len(history[i].season) = 4 * year[i]

\* C3: crop, weed, pest, bird and bat are >= 0 in every state and in every
\* recorded snapshot, for every configuration.
C3_NonNegative ==
    \A i \in Sims : \A k \in PopKeys :
        /\ states[i][k] >= 0
        /\ \A n \in 1..Len(history[i][k]) : history[i][k][n] >= 0

\* A season in which birds were present at growth time (weed depleted in
\* place) and the recovery increment was then added to them.
C3_Witness ==
    \E i \in Sims :
        /\ pc[i] = "chemicals" /\ Flag(i, "introduce_birds")
        /\ Len(history[i].bird) >= 1
        /\ Pre(i, "bird") > 0
        /\ states[i].bird > Pre(i, "bird")
        /\ states[i].weed > 0

SummerPolicyDone(i) == pc[i] = "populations" /\ season[i] = 2

PesticideNoStop(i) ==
    Flag(i, "use_pesticide") /\ ~Has(scenario[i], "pesticide_stop_year")

\* C4 (as amended): with use_pesticide, no stop year and pest > 8 at the
\* summer policy step, right after that policy step (before growth and
\* decay) pesticide_residue is exactly 50, pest is 0.4 times and bird and bat
\* are 0.7 times their values before the step; the summer snapshot, taken
\* after one decay, records a residue of 37.5.
C4_PesticideAtPolicyStep ==
    \A i \in Sims :
        /\ (SummerPolicyDone(i) /\ PesticideNoStop(i) /\ Pre(i, "pest") > 8 * SCALE) =>
              /\ states[i].pesticide_residue = 50 * SCALE
              /\ states[i].pest = Mul(Pre(i, "pest"), 400)
              /\ states[i].bird = Mul(Pre(i, "bird"), 700)
              /\ states[i].bat = Mul(Pre(i, "bat"), 700)
        /\ (/\ pc[i] = "operations" /\ season[i] = 3 /\ PesticideNoStop(i)
            /\ history[i].pest[Len(history[i].pest) - 1] > 8 * SCALE) =>
              Pre(i, "pesticide_residue") = (75 * SCALE) \div 2

\* C4 (as stated): the summer step, i.e. the summer season as recorded,
\* leaves the residue at 50, pest at 0.4 times and bird and bat at 0.7 times
\* the values they had before the step.
C4_SummerStep ==
    \A i \in Sims :
        (/\ pc[i] = "operations" /\ season[i] = 3 /\ PesticideNoStop(i)
         /\ history[i].pest[Len(history[i].pest) - 1] > 8 * SCALE) =>
            /\ Pre(i, "pesticide_residue") = 50 * SCALE
            /\ Pre(i, "pest") = Mul(history[i].pest[Len(history[i].pest) - 1], 400)
            /\ Pre(i, "bird") = Mul(history[i].bird[Len(history[i].bird) - 1], 700)
            /\ Pre(i, "bat") = Mul(history[i].bat[Len(history[i].bat) - 1], 700)

C4_Witness ==
    \E i \in Sims :
        /\ SummerPolicyDone(i) /\ PesticideNoStop(i)
        /\ Pre(i, "pest") > 8 * SCALE
        /\ Pre(i, "bird") > 0 /\ Pre(i, "bat") > 0
        /\ states[i].bird > 0

ResidueKey(chemical_type) ==
    IF chemical_type = "pesticide" THEN "pesticide_residue" ELSE "herbicide_residue"

Stopped(i, chemical_type) ==
    /\ Has(scenario[i], StopYearKey(chemical_type))
    /\ year[i] >= scenario[i][StopYearKey(chemical_type)]

\* C5: a chemical with a configured stop year s (0 included) is not applied
\* in a summer whose year counter is >= s, whatever the pest or weed level
\* and the use flag: the summer operations leave its residue as it was, and
\* for pesticide also pest, bird and bat.
C5_StopYear ==
    \A i \in Sims :
        (season[i] = 2 /\ pc[i] \in {"populations", "error"}) =>
            /\ Stopped(i, "pesticide") =>
                  \A k \in {"pesticide_residue", "pest", "bird", "bat"} :
                      states[i][k] = Pre(i, k)
            /\ Stopped(i, "herbicide") =>
                  states[i].herbicide_residue = Pre(i, "herbicide_residue")

C5_Witness ==
    \E i \in Sims :
        /\ SummerPolicyDone(i) /\ Flag(i, "use_pesticide")
        /\ Has(scenario[i], "pesticide_stop_year")
        /\ scenario[i].pesticide_stop_year = 2
        /\ year[i] = 2
        /\ Pre(i, "pest") > 8 * SCALE
        /\ states[i].pest = Pre(i, "pest")

\* Birds are to be introduced in simulation i and its first growth update
\* (the one of the first spring) has run.
Introduced(i) ==
    /\ Flag(i, "introduce_birds")
    /\ \/ Len(history[i].bird) >= 1
       \/ pc[i] \in {"chemicals", "record"}

\* C6: with introduce_birds and bird starting at 0, the first spring sets
\* bird to exactly 2.0 (its first snapshot), and from then on bird is > 0 in
\* every state and every snapshot, so it is never seeded again.
C6_BirdsPersist ==
    \A i \in Sims :
        Introduced(i) =>
            /\ states[i].bird > 0
            /\ Len(history[i].bird) >= 1 => history[i].bird[1] = 2 * SCALE
            /\ \A n \in 1..Len(history[i].bird) : history[i].bird[n] > 0

\* Birds that have just gone through a pesticide application.
C6_Witness ==
    \E i \in Sims :
        /\ SummerPolicyDone(i) /\ Flag(i, "introduce_birds")
        /\ states[i].pesticide_residue = 50 * SCALE
        /\ year[i] >= 1
        /\ states[i].bird > 0
        /\ states[i].bird < Pre(i, "bird")

NoInputs(i) ==
    \A k \in {"use_fertilizer", "use_herbicide", "use_pesticide",
              "use_cover_crop", "introduce_birds", "introduce_bats"} :
        Has(scenario[i], k) /\ ~scenario[i][k]

\* C7: with the six flags false, in each of the summers of the Years years
\* organic weed control runs and both its mechanical stage (weed > 20) and
\* its crop-density stage reduce weed, no herbicide is applied, and every
\* spring operation leaves crop at exactly 80.0.
C7_OrganicEverySummer ==
    \A i \in Sims :
        (NoInputs(i) /\ year[i] < Years) =>
            /\ SummerPolicyDone(i) =>
                  LET pre == Pre(i, "weed")
                      mech == Mul(pre, SCALE - MechanicalEfficiency(year[i]))
                  IN  /\ pre > 20 * SCALE
                      /\ mech < pre
                      /\ states[i].weed < mech
                      /\ states[i].herbicide_residue = 0
            /\ (pc[i] = "populations" /\ season[i] = 1) =>
                  states[i].crop = 80 * SCALE

C7_Witness ==
    \E i \in Sims :
        /\ NoInputs(i) /\ SummerPolicyDone(i)
        /\ year[i] = Years - 1
        /\ Pre(i, "weed") > 20 * SCALE
        /\ states[i].weed < Pre(i, "weed")

C9_FailBeforeAnySeason ==
    \A i \in Sims :
        ~(RequiredKeys \subseteq DOMAIN scenario[i]) =>
            /\ states[i] = INITIAL_STATES
            /\ history[i] = EmptyHistory

\* C10: soil_health is within [0, 100] in every state, in particular right
\* after a fertilizer operation of either kind, and in every snapshot.
C10_SoilHealthRange ==
    \A i \in Sims :
        /\ states[i].soil_health >= 0
        /\ states[i].soil_health <= 100 * SCALE
        /\ \A n \in 1..Len(history[i].soil_health) :
              /\ history[i].soil_health[n] >= 0
              /\ history[i].soil_health[n] <= 100 * SCALE

\* A chemical fertilizer operation on a soil whose health is already 0.
C10_Witness ==
    \E i \in Sims :
        /\ pc[i] = "populations" /\ season[i] = 1
        /\ Flag(i, "use_fertilizer")
        /\ ~Flag(i, "use_organic_fertilizer")
        /\ Len(history[i].soil_health) >= 1
        /\ Pre(i, "soil_health") = 0
        /\ states[i].soil_health = 0

\* Herbicide eligibility of simulation i at the summer policy step, from the
\* weed level of the spring snapshot (the pesticide step does not touch weed).
HerbicideEligible(i) ==
    /\ Flag(i, "use_herbicide")
    /\ Pre(i, "weed") > 15 * SCALE
    /\ \/ ~Has(scenario[i], "herbicide_stop_year")
       \/ year[i] < scenario[i].herbicide_stop_year

\* C11: every summer runs exactly one of herbicide application and organic
\* weed control.  If herbicide is eligible (flag, weed > 15, stop year not
\* reached) the residue is set to 40 and weed is only multiplied by 0.3; if
\* not, for whatever reason, the residue is left alone and weed is what
\* organic weed control makes of it, which is less than before.  This holds
\* whether or not pesticide was applied in the same summer.
C11_HerbicideXorOrganic ==
    \A i \in Sims :
        SummerPolicyDone(i) =>
            IF HerbicideEligible(i)
            THEN /\ states[i].herbicide_residue = 40 * SCALE
                 /\ states[i].weed = Mul(Pre(i, "weed"), 300)
            ELSE /\ states[i].herbicide_residue = Pre(i, "herbicide_residue")
                 /\ states[i].weed < Pre(i, "weed")
                 /\ states[i].weed =
                       apply_organic_weed_control(
                           [states[i] EXCEPT !.weed = Pre(i, "weed")],
                           scenario[i], year[i]).weed

\* use_herbicide is set but its stop year is reached: organic weed control
\* runs, in a summer in which pesticide was applied.
C11_Witness ==
    \E i \in Sims :
        /\ SummerPolicyDone(i) /\ Flag(i, "use_herbicide")
        /\ Stopped(i, "herbicide")
        /\ Pre(i, "weed") > 15 * SCALE
        /\ states[i].weed < Pre(i, "weed")
        /\ states[i].herbicide_residue = Pre(i, "herbicide_residue")
        /\ states[i].pesticide_residue = 50 * SCALE

\* Organic weed control ran in the summer policy step of simulation i and
\* its mechanical stage fired.
MechanicalStageFired(i) ==
    /\ SummerPolicyDone(i)
    /\ ~HerbicideEligible(i)
    /\ Pre(i, "weed") > 20 * SCALE

\* The weed level after organic weed control whose mechanical stage
\* multiplied the weed of the spring snapshot by factor.
WeedAfterMechanical(i, factor) ==
    LET w1 == Mul(Pre(i, "weed"), factor)
        w2 == IF Flag(i, "use_cover_crop") THEN Mul(w1, 800) ELSE w1
    IN  Mul(w2, SCALE - Min(300, Mul(states[i].crop, 1)))

\* C12 (as amended): the mechanical-weeding efficiency
\* min(0.5, 0.25 + 0.03*min(8, year)) ramps from 0.25 by 0.03 a year over
\* the first 8 years and then plateaus at 0.49, below its cap of 0.5: in
\* every year >= 8 the mechanical stage multiplies a weed level above 20 by
\* exactly 0.51, and in a year y < 8 by 0.75 - 0.03*y.
C12_PlateauAt49 ==
    \A i \in Sims :
        MechanicalStageFired(i) =>
            states[i].weed =
                WeedAfterMechanical(i, IF year[i] >= 8 THEN 510
                                       ELSE 750 - 30 * year[i])

\* C12 (as stated): in every year >= 8 the mechanical stage multiplies the
\* weed level above 20 by exactly 0.5.
C12_PlateauAt50 ==
    \A i \in Sims :
        (MechanicalStageFired(i) /\ year[i] >= 8) =>
            states[i].weed = WeedAfterMechanical(i, 500)

C12_Witness ==
    \E i \in Sims :
        /\ MechanicalStageFired(i)
        /\ year[i] = 8
        /\ states[i].weed = WeedAfterMechanical(i, 510)
        /\ states[i].weed # WeedAfterMechanical(i, 500)

\* The growth rates of simulation i are about to be computed.
GrowthDue(i) == pc[i] = "populations" /\ Has(scenario[i], "use_fertilizer")

\* base * (1 - pest_effect - weed_effect) for the state of simulation i.
RawNet(i) ==
    Mul(CropBase(states[i].crop),
        SCALE - CropPestEffect(states[i].pest) - CropWeedEffect(states[i].weed))

WeedAfterGrowth(st, sname) ==
    LET W == st.weed
        rate == Mul(calculate_weed_growth(st, W, st.crop), SEASON_FACTORS[sname])
    IN  IF st.bird > 0
        THEN Max(0, Mul(W, SCALE - Min(100, Mul(st.bird, 5))) + rate)
        ELSE Max(0, W + rate)

C14_Step(i) ==
    (pc[i] = "populations" /\ pc'[i] = "chemicals") =>
        states'[i].weed = WeedAfterGrowth(states[i], SEASONS[season[i]])

\* C14: the growth step depletes weed in place when bird > 0 at growth time:
\* weed becomes max(0, W*(1 - min(0.1, 0.005*bird)) + season_factor*weed_rate)
\* with weed_rate computed from the weed level W before the depletion; with
\* bird = 0, also in the season that introduces the birds, weed is not
\* depleted.
C14_BirdSeedPredation == [][\A i \in Sims : C14_Step(i)]_vars

\* The latest snapshot of simulation i as a state.
PreState(i) == [k \in StateKeys |-> Pre(i, k)]

\* An autumn growth step (no farming operation precedes it) with birds
\* present, in which the depletion changed the resulting weed level.
C14_Witness ==
    \E i \in Sims :
        /\ pc[i] = "chemicals" /\ season[i] = 3
        /\ Pre(i, "bird") > 0
        /\ states[i].weed = WeedAfterGrowth(PreState(i), "autumn")
        /\ states[i].weed <
              WeedAfterGrowth([PreState(i) EXCEPT !.bird = 0], "autumn")

\* Every recorded crop value exceeds the planting level, and within a year
\* each record exceeds the record of the season before it.
C15_Recorded(i) ==
    \A n \in 1..Len(history[i].crop) :
        /\ history[i].crop[n] > 80 * SCALE
        /\ (n - 1) % 4 # 0 => history[i].crop[n] > history[i].crop[n - 1]

\* The growth step raises crop; a step that lowers crop is the spring
\* operations step.
C15_Step(i) ==
    /\ (pc[i] = "populations" /\ pc'[i] = "chemicals") =>
           states'[i].crop > states[i].crop
    /\ states'[i].crop < states[i].crop =>
           pc[i] = "operations" /\ SEASONS[season[i]] = "spring"

\* C15: the season-scaled crop growth rate is strictly positive in every
\* season of every scenario, so crop never decreases through growth: every
\* recorded crop value is above 80.0, the recorded values strictly increase
\* from spring to winter within each year, and crop only drops at the spring
\* reset.
C15_CropGrowthPositive ==
    /\ [](\A i \in Sims : C15_Recorded(i))
    /\ [][\A i \in Sims : C15_Step(i)]_vars

\* A winter growth step in which pests and weeds push the net rate down to
\* its floor, and crop still grew; the year before it ended above the
\* planting level, so its spring reset lowered crop.
C15_Witness ==
    \E i \in Sims :
        /\ pc[i] = "chemicals" /\ SEASONS[season[i]] = "winter"
        /\ year[i] >= 1
        /\ CropNet_unfloored(Pre(i, "crop"), Pre(i, "weed"), Pre(i, "pest")) < 50
        /\ CropNet(Pre(i, "crop"), Pre(i, "weed"), Pre(i, "pest")) = 50
        /\ states[i].crop > Pre(i, "crop")
        /\ history[i].crop[Len(history[i].crop) - 3] > 80 * SCALE

=============================================================================
